---------------------------- MODULE Spec2Model ----------------------------
(***************************************************************************)
(* A model of the style-aware suggestion backend (lucaBartelsen/chat-bot-  *)
(* api): the creator style store (app/api/creators.py), the similarity     *)
(* index (app/services/vector_service.py), the example endpoints           *)
(* (app/api/examples.py) and suggestion generation                         *)
(* (app/services/ai_service.py, app/api/suggestions.py).                   *)
(*                                                                         *)
(* The tables of the database are sets of rows.  A request handler is a    *)
(* process that moves from one await to the next; each action is one such  *)
(* step, so other requests may run between the read of a row and the       *)
(* write that depends on it.                                               *)
(***************************************************************************)
EXTENDS Integers, Sequences, FiniteSets, TLC

VARIABLES
    creators,     \* ids of the rows of table creators
    styles,       \* rows of table creator_styles
    nextStyleId,  \* next value of the creator_styles id sequence
    req,          \* the style requests in flight, one record per request slot
    hist,         \* the last two completed style calls, oldest first
    styleEx,      \* rows of table style_examples
    respEx,       \* rows of table response_examples
    responses,    \* rows of table creator_responses
    convs,        \* rows of table vector_store
    nextId,       \* next id the example tables hand out
    nextRespId,   \* next value of the creator_responses id sequence
    submitted,    \* per response example id, how many responses came with it
    found,        \* the rows a find_similar_* call is returning, if any
    sess,         \* the database session of the running example request
    task,         \* the running example request, and how far it is
    got,          \* the responses get_response_example is returning, if any
    gen,          \* the running suggestion request, and how far it is
    fb,           \* the last store-feedback request, and how far it is
    prompt        \* the response examples as the last system message lists them

styleVars == <<creators, styles, nextStyleId, req, hist>>

indexVars == <<styleEx, respEx, responses, convs, nextId, nextRespId, submitted>>

respVars == <<sess, task, got>>

notStyleVars == <<indexVars, found, respVars, gen, fb, prompt>>

vars == <<styleVars, indexVars, found, respVars, gen, fb, prompt>>

None == "None"

\* None where the other values are integers: a NULL foreign key, an absent ranking
NullId == 0

NoRanking == -1

\* An optional row or request body is a set: empty for None, else its one element
NoRow == {}

The(opt) == CHOOSE x \in opt : TRUE

-----------------------------------------------------------------------------
(* Bounds of the model *)

MaxCreators == 1

NumRequests == 2

MaxStyleRows == 3

MaxIndexRows == 2

MaxLimit == 2

MaxBulk == 2

MaxCount == 3

CreatorIds == 1..MaxCreators

Requests == 1..NumRequests

\* A session with no transaction begun
CleanSession == [active |-> TRUE, parents |-> {}, children |-> {}]

\* No example request is running
NoTask == [op |-> None, c |-> 0, items |-> <<>>, idx |-> 0, pc |-> "idle",
           created |-> 0, errors |-> {}, embeds |-> 0, faults |-> {}, status |-> 0]

\* No suggestion request is running
NoGen == [pc |-> "idle", c |-> 0, m |-> None, n |-> 0, supplied |-> 0, threshold |-> 0,
          embedding |-> <<>>,
          style_examples |-> <<>>, response_examples |-> <<>>, similar_conversations |-> <<>>,
          calls |-> 0, failed |-> {}, choices |-> <<>>, suggestions |-> <<>>, status |-> 0]

\* No store-feedback request has been made
NoFeedback == [pc |-> "idle", c |-> 0, m |-> None, text |-> <<>>, row |-> NoRow, status |-> 0]

-----------------------------------------------------------------------------
(* Creator style store: app/api/creators.py *)

\* create_default_style_config: the configuration of a synthesized profile
DefaultStyleConfig ==
    [ case_style |-> "sentence",
      approved_emojis |-> <<"smile", "heart", "kiss", "wink", "wave",
                            "fire", "hearts", "heart_eyes", "smiling_hearts", "kiss_mark">>,
      sentence_separators |-> <<".", "!", "?">>,
      text_replacements |-> { <<"you", "u">>, <<"your", "ur">>, <<"because", "bc">>,
                              <<"probably", "prob">>, <<"definitely", "def">> },
      common_abbreviations |-> { <<"btw", "by the way">>, <<"omg", "oh my god">>,
                                 <<"lol", "laugh out loud">>, <<"tbh", "to be honest">>,
                                 <<"imo", "in my opinion">>, <<"rn", "right now">>,
                                 <<"ngl", "not gonna lie">> },
      message_length_preferences |-> [min_length |-> 10, max_length |-> 500,
                                      optimal_length |-> 150],
      punctuation_rules |-> [use_ellipsis |-> TRUE, use_exclamations |-> TRUE,
                             max_consecutive_exclamations |-> 2],
      style_instructions |-> "friendly conversational",
      tone_range |-> <<"friendly", "casual", "enthusiastic", "supportive", "playful">> ]

\* The request bodies of POST style: a complete configuration
PostBodies ==
    { [DefaultStyleConfig EXCEPT !.case_style = "lowercase",
                                 !.tone_range = <<"flirty">>] }

\* The request bodies of PATCH style: the fields that were set (exclude_unset)
PatchBodies ==
    { [case_style |-> "lowercase"],
      [tone_range |-> <<"flirty">>, style_instructions |-> "short"],
      [creator_id |-> MaxCreators + 1, case_style |-> "custom"] }

\* The row of a CreatorStyle: id, creator_id and the configuration
StyleRow(id, c, cfg) == [id |-> id, creator_id |-> c, cfg |-> cfg]

\* select(CreatorStyle).where(CreatorStyle.creator_id == creator_id)
StylesOf(c) == { s \in styles : s.creator_id = c }

\* the loop of update_creator_style over model_dump(exclude_unset=True)
ApplyPatch(cfg, body) ==
    [f \in DOMAIN cfg |-> IF f \in DOMAIN body THEN body[f] ELSE cfg[f]]

\* A variant of Patchable that lets every key through
PatchableAny(key) == TRUE

\* if key != "creator_id": setattr(existing_style, key, value)
Patchable(key) == key # "creator_id"

\* The attributes the loop leaves changed: setting the value that was loaded is no change
Dirty(loaded, body) ==
    { f \in DOMAIN body \cap DOMAIN loaded.cfg : body[f] # loaded.cfg[f] }

\* commit: the UPDATE sets the changed columns of the stored row, and no other column
Updated(loaded, stored, body) ==
    [id |-> stored.id,
     creator_id |-> IF "creator_id" \in DOMAIN body /\ Patchable("creator_id")
                      THEN body.creator_id
                      ELSE stored.creator_id,
     cfg |-> ApplyPatch(stored.cfg, [f \in Dirty(loaded, body) |-> body[f]])]

\* A variant of StyleMissing that always takes the create branch
StyleMissingAlways(style) == TRUE

\* `if not style:` of get_creator_style, `if not existing_style:` of update_creator_style
StyleMissing(style) == style = NoRow

Idle == [pc |-> "idle", op |-> None, c |-> 0, style |-> NoRow, body |-> NoRow]

Response(op, c, status, row, created) ==
    [op |-> op, c |-> c, status |-> status, row |-> row, created |-> created]

\* The last two completed calls
Record(resp) == IF Len(hist) < 2 THEN Append(hist, resp) ELSE <<hist[2], resp>>

\* A handler returns (or raises): the slot is free again
Finish(r, resp) ==
    /\ req' = [req EXCEPT ![r] = Idle]
    /\ hist' = Record(resp)

\* create_creator: the creator and its default style are committed together
CreateCreator ==
    /\ Cardinality(creators) < MaxCreators
    /\ nextStyleId <= MaxStyleRows
    /\ LET c == Cardinality(creators) + 1 IN
        /\ creators' = creators \cup {c}
        /\ styles' = styles \cup {StyleRow(nextStyleId, c, DefaultStyleConfig)}
        /\ nextStyleId' = nextStyleId + 1
        /\ hist' = Record(Response("create_creator", c, 201, NoRow, TRUE))
    /\ UNCHANGED req
    /\ UNCHANGED notStyleVars

\* The first await of get_creator_style, store_creator_style and
\* update_creator_style: the creator query, 404 when it finds nothing
BeginStyleCall(r, op, c, body) ==
    /\ req[r].pc = "idle"
    /\ IF c \notin creators
       THEN Finish(r, Response(op, c, 404, NoRow, FALSE))
       ELSE /\ req' = [req EXCEPT ![r] = [pc |-> "checked", op |-> op, c |-> c,
                                          style |-> NoRow, body |-> body]]
            /\ UNCHANGED hist
    /\ UNCHANGED <<creators, styles, nextStyleId>>
    /\ UNCHANGED notStyleVars

GetCreatorStyleBegin(r) ==
    \E c \in CreatorIds : BeginStyleCall(r, "get", c, NoRow)

StoreCreatorStyleBegin(r) ==
    \E c \in CreatorIds, b \in PostBodies : BeginStyleCall(r, "post", c, {b})

UpdateCreatorStyleBegin(r) ==
    \E c \in CreatorIds, b \in PatchBodies : BeginStyleCall(r, "patch", c, {b})

\* delete_creator_style makes no creator query: its first await is the style query
DeleteCreatorStyleBegin(r) ==
    /\ req[r].pc = "idle"
    /\ \E c \in CreatorIds :
        req' = [req EXCEPT ![r] = [pc |-> "checked", op |-> "delete_style", c |-> c,
                                   style |-> NoRow, body |-> NoRow]]
    /\ UNCHANGED <<creators, styles, nextStyleId, hist>>
    /\ UNCHANGED notStyleVars

\* The style query and scalar_one_or_none(): no row is None, one row is the
\* row, more rows raise MultipleResultsFound
ReadStyle(r) ==
    /\ req[r].pc = "checked"
    /\ LET rows == StylesOf(req[r].c)
           op == req[r].op
           c == req[r].c
       IN IF Cardinality(rows) > 1
          THEN Finish(r, Response(op, c, 500, NoRow, FALSE))
          ELSE LET style == rows IN
               CASE op = "get" /\ ~StyleMissing(style) ->
                        Finish(r, Response(op, c, 200, style, FALSE))
                 [] op = "post" /\ style # NoRow ->
                        Finish(r, Response(op, c, 409, NoRow, FALSE))
                 [] op = "delete_style" /\ style = NoRow ->
                        Finish(r, Response(op, c, 404, NoRow, FALSE))
                 [] OTHER ->
                        /\ req' = [req EXCEPT ![r].pc = "read", ![r].style = style]
                        /\ UNCHANGED hist
    /\ UNCHANGED <<creators, styles, nextStyleId>>
    /\ UNCHANGED notStyleVars

\* get_creator_style, the branch that creates the missing profile:
\* session.add(style); commit
GetCreatorStyleCreate(r) ==
    /\ req[r].pc = "read"
    /\ req[r].op = "get"
    /\ nextStyleId <= MaxStyleRows
    /\ LET row == StyleRow(nextStyleId, req[r].c, DefaultStyleConfig) IN
        /\ styles' = styles \cup {row}
        /\ nextStyleId' = nextStyleId + 1
        /\ Finish(r, Response("get", req[r].c, 200, {row}, TRUE))
    /\ UNCHANGED creators
    /\ UNCHANGED notStyleVars

\* store_creator_style: style.creator_id = creator_id; session.add(style); commit
StoreCreatorStyleInsert(r) ==
    /\ req[r].pc = "read"
    /\ req[r].op = "post"
    /\ nextStyleId <= MaxStyleRows
    /\ LET row == StyleRow(nextStyleId, req[r].c, The(req[r].body)) IN
        /\ styles' = styles \cup {row}
        /\ nextStyleId' = nextStyleId + 1
        /\ Finish(r, Response("post", req[r].c, 200, {row}, TRUE))
    /\ UNCHANGED creators
    /\ UNCHANGED notStyleVars

\* update_creator_style: create the default when missing, set the given
\* fields, commit.  The UPDATE of a row that was deleted meanwhile matches no
\* row and the commit raises
UpdateCreatorStyleWrite(r) ==
    /\ req[r].pc = "read"
    /\ req[r].op = "patch"
    /\ LET c == req[r].c
           old == req[r].style
       IN IF StyleMissing(old)
          THEN /\ nextStyleId <= MaxStyleRows
               /\ LET made == StyleRow(nextStyleId, c, DefaultStyleConfig)
                      row == Updated(made, made, The(req[r].body)) IN
                   /\ styles' = styles \cup {row}
                   /\ nextStyleId' = nextStyleId + 1
                   /\ Finish(r, Response("patch", c, 200, {row}, TRUE))
          ELSE IF \E s \in styles : s.id = The(old).id
               THEN LET cur == CHOOSE s \in styles : s.id = The(old).id
                        row == Updated(The(old), cur, The(req[r].body)) IN
                    /\ styles' = (styles \ {cur}) \cup {row}
                    /\ UNCHANGED nextStyleId
                    /\ Finish(r, Response("patch", c, 200, {row}, FALSE))
               ELSE /\ UNCHANGED <<styles, nextStyleId>>
                    /\ Finish(r, Response("patch", c, 500, NoRow, FALSE))
    /\ UNCHANGED creators
    /\ UNCHANGED notStyleVars

\* delete_creator_style: session.delete(existing_style); commit
DeleteCreatorStyleWrite(r) ==
    /\ req[r].pc = "read"
    /\ req[r].op = "delete_style"
    /\ IF \E s \in styles : s.id = The(req[r].style).id
       THEN /\ styles' = { s \in styles : s.id # The(req[r].style).id }
            /\ Finish(r, Response("delete_style", req[r].c, 204, NoRow, FALSE))
       ELSE /\ UNCHANGED styles
            /\ Finish(r, Response("delete_style", req[r].c, 500, NoRow, FALSE))
    /\ UNCHANGED <<creators, nextStyleId>>
    /\ UNCHANGED notStyleVars

StyleInit ==
    /\ creators = {}
    /\ styles = {}
    /\ nextStyleId = 1
    /\ req = [r \in Requests |-> Idle]
    /\ hist = <<>>
    /\ styleEx = {} /\ respEx = {} /\ responses = {} /\ convs = {}
    /\ nextId = 1 /\ nextRespId = 1
    /\ submitted = {}
    /\ found = NoRow
    /\ sess = CleanSession /\ task = NoTask /\ got = NoRow
    /\ gen = NoGen
    /\ fb = NoFeedback
    /\ prompt = <<>>

\* Requests served concurrently: any handler may take its next step
StyleNext ==
    \/ CreateCreator
    \/ \E r \in Requests : GetCreatorStyleBegin(r)
    \/ \E r \in Requests : StoreCreatorStyleBegin(r)
    \/ \E r \in Requests : UpdateCreatorStyleBegin(r)
    \/ \E r \in Requests : DeleteCreatorStyleBegin(r)
    \/ \E r \in Requests : ReadStyle(r)
    \/ \E r \in Requests : GetCreatorStyleCreate(r)
    \/ \E r \in Requests : StoreCreatorStyleInsert(r)
    \/ \E r \in Requests : UpdateCreatorStyleWrite(r)
    \/ \E r \in Requests : DeleteCreatorStyleWrite(r)

SpecStyle == StyleInit /\ [][StyleNext]_vars

AllIdle == \A r \in Requests : req[r].pc = "idle"

\* Calls made in sequence: one caller, whose next call starts when the last returned
Caller == CHOOSE r \in Requests : TRUE

StyleSeqNext ==
    \/ AllIdle /\ CreateCreator
    \/ GetCreatorStyleBegin(Caller)
    \/ StoreCreatorStyleBegin(Caller)
    \/ UpdateCreatorStyleBegin(Caller)
    \/ DeleteCreatorStyleBegin(Caller)
    \/ ReadStyle(Caller)
    \/ GetCreatorStyleCreate(Caller)
    \/ StoreCreatorStyleInsert(Caller)
    \/ UpdateCreatorStyleWrite(Caller)
    \/ DeleteCreatorStyleWrite(Caller)

SpecStyleSeq == StyleInit /\ [][StyleSeqNext]_vars

\* Two updates served concurrently, of the profiles made with their creators
Updaters == {Caller, CHOOSE r \in Requests : r # Caller}

StyleUpdateNext ==
    \/ CreateCreator
    \/ \E r \in Updaters : UpdateCreatorStyleBegin(r)
    \/ \E r \in Updaters : ReadStyle(r)
    \/ \E r \in Updaters : UpdateCreatorStyleWrite(r)

SpecStyleUpdate == StyleInit /\ [][StyleUpdateNext]_vars

-----------------------------------------------------------------------------
(* Similarity index: app/services/vector_service.py *)

IndexCreators == {1, 2}

Messages == {"hello", "hey"}

Categories == {None, "greeting"}

\* A category argument of a query: absent, the empty string, or a category
CategoryArgs == {None, "", "greeting"}

\* Thresholds in percent
Thresholds == {60, 70}

Limits == 1..MaxLimit

\* The embedding service: a fixed vector per text, here of two dimensions
\* A text whose characters matter is a sequence of them
Reply == <<"o", "k">>

Embed(m) == IF m = "hello" THEN <<5, 0>> ELSE <<3, 4>>

Dot(a, b) == a[1] * b[1] + a[2] * b[2]

ISqrt(n) == CHOOSE k \in 0..n : k * k <= n /\ (k + 1) * (k + 1) > n

Norm(a) == ISqrt(Dot(a, a))

\* pgvector's cosine_distance, in percent
CosineDistance(a, b) == 100 - (100 * Dot(a, b)) \div (Norm(a) * Norm(b))

\* The similarity column of the queries: 1 - cosine_distance
Similarity(a, b) == 100 - CosineDistance(a, b)

\* Python truthiness of an Optional[str]
Truthy(x) == x # None /\ x # ""

Min(a, b) == IF a <= b THEN a ELSE b

Range(s) == { s[i] : i \in DOMAIN s }

\* Rows are created one after the other: a later row has a larger id
CreatedAt(row) == row.id

StyleExampleRow(id, c, m, reply, cat, emb) ==
    [id |-> id, creator_id |-> c, fan_message |-> m, creator_response |-> reply,
     category |-> cat, embedding |-> emb]

ResponseExampleRow(id, c, m, cat, emb) ==
    [id |-> id, creator_id |-> c, fan_message |-> m, category |-> cat, embedding |-> emb]

CreatorResponseRow(id, example_id, text, ranking) ==
    [id |-> id, example_id |-> example_id, response_text |-> text, ranking |-> ranking]

VectorStoreRow(id, c, m, reply, emb) ==
    [id |-> id, creator_id |-> c, fan_message |-> m, creator_response |-> reply,
     embedding |-> emb]

\* The ranking store_response_example gives response i of a call
RankingAt(rankings, i) ==
    IF rankings # <<>> /\ i <= Len(rankings) THEN rankings[i] ELSE NoRanking

\* The creator_responses rows one store_response_example call adds
ChildRows(exampleId, firstId, texts, rankings) ==
    { CreatorResponseRow(firstId + i - 1, exampleId, texts[i], RankingAt(rankings, i)) :
        i \in 1..Len(texts) }

\* WHERE creator_id = c [AND category = cat] AND 1 - cosine_distance >= threshold
WhereCategory(cat, row) == Truthy(cat) => row.category = cat

WhereThresholdNone(row, emb, threshold) == TRUE

WhereThreshold(row, emb, threshold) == Similarity(row.embedding, emb) >= threshold

Matching(rows, c, emb, threshold, cat) ==
    { row \in rows : /\ row.creator_id = c
                     /\ WhereCategory(cat, row)
                     /\ WhereThreshold(row, emb, threshold) }

\* ORDER BY cosine_distance: the order of rows at the same distance is the database's
OrderByFarthest(s, distance) ==
    \A i, j \in DOMAIN s : i < j => distance[s[i]] >= distance[s[j]]

OrderBy(s, distance) ==
    \A i, j \in DOMAIN s : i < j => distance[s[i]] <= distance[s[j]]

\* LIMIT n of the ordered rows: the results the database may return
OrderedLimit(rows, emb, limit) ==
    LET k == Min(limit, Cardinality(rows))
        distance == [row \in rows |-> CosineDistance(row.embedding, emb)]
    IN  { s \in [1..k -> rows] :
            /\ \A i, j \in 1..k : i # j => s[i] # s[j]
            /\ OrderBy(s, distance)
            /\ \A row \in rows \ Range(s) : \A i \in 1..k : distance[s[i]] <= distance[row] }

\* return [(row[0], float(row[1])) for row in rows]
Scored(s, emb) ==
    [i \in DOMAIN s |-> [example |-> s[i], similarity |-> Similarity(s[i].embedding, emb)]]

FindSimilar(kind, rows, c, emb, threshold, limit, cat) ==
    /\ \E s \in OrderedLimit(Matching(rows, c, emb, threshold, cat), emb, limit) :
          found' = { [kind |-> kind, creator_id |-> c, embedding |-> emb,
                      similarity_threshold |-> threshold, limit |-> limit,
                      category |-> cat, result |-> Scored(s, emb)] }
    /\ UNCHANGED <<styleVars, prompt, fb, indexVars, respVars, gen>>

FindSimilarStyleExamples ==
    /\ found = NoRow
    /\ \E c \in IndexCreators, m \in Messages, t \in Thresholds, n \in Limits,
          cat \in CategoryArgs :
            FindSimilar("style", styleEx, c, Embed(m), t, n, cat)

FindSimilarResponseExamples ==
    /\ found = NoRow
    /\ \E c \in IndexCreators, m \in Messages, t \in Thresholds, n \in Limits,
          cat \in CategoryArgs :
            FindSimilar("response", respEx, c, Embed(m), t, n, cat)

FindSimilarConversations ==
    /\ found = NoRow
    /\ \E c \in IndexCreators, m \in Messages, t \in Thresholds, n \in Limits :
            FindSimilar("conversation", convs, c, Embed(m), t, n, None)

\* The caller takes the rows a find_similar_* call returned
ReturnFound ==
    /\ found # NoRow
    /\ found' = NoRow
    /\ UNCHANGED <<styleVars, prompt, fb, indexVars, respVars, gen>>

\* The store_* calls; creator_id is a foreign key, so the creator has to exist
StoreStyleExample ==
    /\ found = NoRow
    /\ nextId <= MaxIndexRows
    /\ \E c \in IndexCreators \cap creators, m \in Messages, cat \in Categories :
        /\ styleEx' = styleEx \cup {StyleExampleRow(nextId, c, m, Reply, cat, Embed(m))}
        /\ nextId' = nextId + 1
        /\ UNCHANGED found
        /\ UNCHANGED <<styleVars, prompt, fb, respVars, gen, respEx, responses, convs, nextRespId, submitted>>

StoreConversation ==
    /\ found = NoRow
    /\ nextId <= MaxIndexRows
    /\ \E c \in IndexCreators \cap creators, m \in Messages :
        /\ convs' = convs \cup {VectorStoreRow(nextId, c, m, Reply, Embed(m))}
        /\ nextId' = nextId + 1
        /\ UNCHANGED found
        /\ UNCHANGED <<styleVars, prompt, fb, respVars, gen, styleEx, respEx, responses, nextRespId, submitted>>

\* store_response_example when neither its flush nor its commit fails
StoreResponseExample ==
    /\ found = NoRow
    /\ nextId <= MaxIndexRows
    /\ \E c \in IndexCreators \cap creators, m \in Messages, cat \in Categories :
        /\ respEx' = respEx \cup {ResponseExampleRow(nextId, c, m, cat, Embed(m))}
        /\ responses' = responses \cup ChildRows(nextId, nextRespId, <<Reply>>, <<>>)
        /\ submitted' = submitted \cup {<<nextId, 1>>}
        /\ nextId' = nextId + 1
        /\ nextRespId' = nextRespId + 1
        /\ UNCHANGED found
        /\ UNCHANGED <<styleVars, prompt, fb, respVars, gen, styleEx, convs>>

SimNext ==
    \/ StoreStyleExample
    \/ StoreResponseExample
    \/ StoreConversation
    \/ FindSimilarStyleExamples
    \/ FindSimilarResponseExamples
    \/ FindSimilarConversations
    \/ ReturnFound

\* The creators of the index exist; their profiles were deleted, to be made on demand
IndexInit ==
    /\ creators = IndexCreators
    /\ styles = {}
    /\ nextStyleId = Cardinality(IndexCreators) + 1
    /\ req = [r \in Requests |-> Idle]
    /\ hist = <<>>
    /\ styleEx = {} /\ respEx = {} /\ responses = {} /\ convs = {}
    /\ nextId = 1 /\ nextRespId = 1
    /\ submitted = {}
    /\ found = NoRow
    /\ sess = CleanSession /\ task = NoTask /\ got = NoRow
    /\ gen = NoGen
    /\ fb = NoFeedback
    /\ prompt = <<>>

SpecSim == IndexInit /\ [][SimNext]_vars

Results == IF found = NoRow THEN <<>> ELSE The(found).result

Query == The(found)

\* The table a query was run against; it is unchanged while the result stands
Table(kind) ==
    IF kind = "style" THEN styleEx ELSE IF kind = "response" THEN respEx ELSE convs

(* C3: every find_similar_* call with limit > 0 returns at most limit       *)
(* entries, each of similarity at or above the threshold.                  *)
AtMostLimitAboveThreshold ==
    found # NoRow =>
        /\ Len(Results) <= Query.limit
        /\ \A i \in DOMAIN Results : Results[i].similarity >= Query.similarity_threshold

\* A query that the limit cuts short and from which the threshold excludes a row
LimitAndThresholdWitness ==
    /\ found # NoRow
    /\ Len(Results) = Query.limit
    /\ \E row \in Table(Query.kind) :
          /\ row.creator_id = Query.creator_id
          /\ Similarity(row.embedding, Query.embedding) < Query.similarity_threshold

(* C4: the list a find_similar_* call returns is ordered by non-increasing  *)
(* similarity: no entry has a higher similarity than an entry before it.   *)
NonIncreasingSimilarity ==
    \A i, j \in DOMAIN Results : i < j => Results[i].similarity >= Results[j].similarity

\* A result of two entries of different similarity
TwoSimilaritiesWitness ==
    /\ Len(Results) >= 2
    /\ Results[1].similarity > Results[2].similarity

(* C5: of two entries of the creator with equal similarity to the query,    *)
(* the more recently created one is returned first, and when the limit     *)
(* cuts between them the more recent one is the one kept.                  *)
TiesMostRecentFirst ==
    found # NoRow =>
        /\ \A i, j \in DOMAIN Results :
              (i < j /\ Results[i].similarity = Results[j].similarity)
                  => CreatedAt(Results[i].example) > CreatedAt(Results[j].example)
        /\ \A i \in DOMAIN Results :
              \A row \in Matching(Table(Query.kind), Query.creator_id, Query.embedding,
                                  Query.similarity_threshold, Query.category) :
                  (/\ row \notin { Results[k].example : k \in DOMAIN Results }
                   /\ Similarity(row.embedding, Query.embedding) = Results[i].similarity)
                      => CreatedAt(row) < CreatedAt(Results[i].example)

(* C6: every returned entry belongs to the creator_id passed in, and when a *)
(* category argument is supplied, whatever string it is, every returned    *)
(* entry has exactly that category.                                        *)
OnlyCreatorAndCategory ==
    found # NoRow =>
        \A i \in DOMAIN Results :
            /\ Results[i].example.creator_id = Query.creator_id
            /\ Query.category # None => Results[i].example.category = Query.category


-----------------------------------------------------------------------------
(* Response examples: app/api/examples.py and store_response_example *)

Hey == <<"h", "e", "y", "!">>

Sup == <<"s", "u", "p">>

Ranked(text, ranking) == [response_text |-> text, ranking |-> ranking]

\* The responses of a request body: none, one, two in rank order, two in reverse,
\* two of which only the second has a ranking
ResponseLists ==
    { <<>>,
      <<Ranked(Hey, 1)>>,
      <<Ranked(Hey, 1), Ranked(Sup, 2)>>,
      <<Ranked(Sup, 2), Ranked(Hey, 1)>>,
      <<Ranked(Hey, NoRanking), Ranked(Sup, 2)>> }

ExampleItems ==
    { [fan_message |-> "hello", category |-> None, responses |-> rs] : rs \in ResponseLists }

ItemLists == UNION { [1..n -> ExampleItems] : n \in 1..MaxBulk }

\* response_texts = [resp.response_text for resp in example.responses]
Texts(rs) == [i \in DOMAIN rs |-> rs[i].response_text]

\* rankings = [resp.ranking for resp in example.responses if resp.ranking is not None]
IsRanked(r) == r # NoRanking

Rankings(rs) == SelectSeq([i \in DOMAIN rs |-> rs[i].ranking], IsRanked)

ApiOps == {"create", "bulk_create"}

\* A request handler or a service call starts: it gets a session of its own
BeginExampleCall(op, c, items) ==
    /\ task.pc = "idle"
    /\ got = NoRow
    /\ nextId + Len(items) - 1 <= MaxIndexRows
    /\ task' = [op |-> op, c |-> c, items |-> items, idx |-> 1, created |-> 0, errors |-> {},
                embeds |-> 0, faults |-> {},
                status |-> IF op \in ApiOps /\ c \notin creators THEN 404 ELSE 0,
                pc |-> IF op \in ApiOps
                         THEN IF c \in creators THEN "item" ELSE "return"
                         ELSE "flush"]
    /\ sess' = CleanSession
    /\ UNCHANGED <<styleVars, prompt, fb, indexVars, found, got, gen>>

CreateResponseExampleBegin ==
    \E c \in IndexCreators, item \in ExampleItems : BeginExampleCall("create", c, <<item>>)

BulkCreateResponseExamplesBegin ==
    \E c \in IndexCreators, items \in ItemLists : BeginExampleCall("bulk_create", c, items)

StoreResponseExampleBegin ==
    \E c \in IndexCreators, item \in ExampleItems : BeginExampleCall("store", c, <<item>>)

BulkStoreResponseExamplesBegin ==
    \E c \in IndexCreators, items \in ItemLists : BeginExampleCall("bulk_store", c, items)

\* The loop of the bulk endpoint moves to its next item, or the handler returns
Advance(t) ==
    IF t.idx < Len(t.items)
      THEN [t EXCEPT !.idx = @ + 1, !.pc = "item"]
      ELSE [t EXCEPT !.pc = "return", !.status = 201]

\* An exception at the current item: only the bulk endpoint catches it and goes on
Raise(t) ==
    IF t.op = "bulk_create"
      THEN Advance([t EXCEPT !.errors = @ \cup {t.idx}])
      ELSE [t EXCEPT !.errors = @ \cup {t.idx}, !.pc = "return"]

\* The reply of the single endpoint: HTTPException(status_code)
Status(t, code) == IF t.op = "create" THEN [t EXCEPT !.status = code] ELSE t

\* The current item fails by a cause of its own, not by what an earlier item left
Fault(t) == [t EXCEPT !.faults = @ \cup {t.idx}]

\* if not example.responses or len(example.responses) == 0
RejectsNone(item) == FALSE

Rejects(item) == item.responses = <<>>

\* The endpoints check for an empty list of responses, then await the embedding
EmbedItem ==
    /\ task.pc = "item"
    /\ IF Rejects(task.items[task.idx])
         THEN task' = Raise(Fault(Status(task, 400)))
         ELSE \E ok \in BOOLEAN :
                LET called == [task EXCEPT !.embeds = @ + 1]
                IN  task' = IF ok
                              THEN [called EXCEPT !.pc = "flush"]
                              ELSE Raise(Fault(Status(called, 500)))
    /\ UNCHANGED <<styleVars, prompt, fb, indexVars, found, sess, got, gen>>

\* A flush that fails rolls the transaction back and leaves the session unusable
FailedFlush(s) == [active |-> FALSE, parents |-> {}, children |-> {}]

\* session.add(example); await session.flush(); session.add(creator_response) ...
FlushExample ==
    /\ task.pc = "flush"
    /\ LET item == task.items[task.idx]
           parent == ResponseExampleRow(nextId, task.c, item.fan_message, item.category,
                                        Embed(item.fan_message))
           kids == ChildRows(nextId, nextRespId, Texts(item.responses),
                             Rankings(item.responses))
       IN  \E ok \in BOOLEAN :
             IF sess.active /\ ok
               THEN /\ sess' = [sess EXCEPT !.parents = @ \cup {parent},
                                            !.children = @ \cup kids]
                    /\ nextId' = nextId + 1
                    /\ nextRespId' = nextRespId + Len(item.responses)
                    /\ submitted' = submitted \cup {<<nextId, Len(item.responses)>>}
                    /\ task' = IF task.op = "bulk_store" /\ task.idx < Len(task.items)
                                 THEN [task EXCEPT !.idx = @ + 1]
                                 ELSE [task EXCEPT !.pc = "commit"]
               ELSE /\ sess' = FailedFlush(sess)
                    /\ task' = Raise(Status(IF sess.active THEN Fault(task) ELSE task, 500))
                    /\ UNCHANGED <<nextId, nextRespId, submitted>>
    /\ UNCHANGED <<styleVars, prompt, fb, styleEx, respEx, responses, convs, found, got, gen>>

\* What a failed commit leaves of the transaction: nothing
RollbackChildren(s) == [s EXCEPT !.children = {}]

Rollback(s) == [s EXCEPT !.parents = {}, !.children = {}]

\* await session.commit(): all the rows of the transaction become visible, or none
CommitExample ==
    /\ task.pc = "commit"
    /\ \E ok \in BOOLEAN, usable \in BOOLEAN :
          IF ok
            THEN /\ usable
                 /\ respEx' = respEx \cup sess.parents
                 /\ responses' = responses \cup sess.children
                 /\ sess' = CleanSession
                 /\ task' = IF task.op = "bulk_create"
                              THEN Advance([task EXCEPT !.created = @ + 1])
                              ELSE Status([task EXCEPT !.created = Cardinality(sess.parents),
                                                       !.pc = "return"], 201)
            ELSE /\ sess' = [Rollback(sess) EXCEPT !.active = usable]
                 /\ task' = Raise(Fault(Status(task, 500)))
                 /\ UNCHANGED <<respEx, responses>>
    /\ UNCHANGED <<styleVars, prompt, fb, styleEx, convs, nextId, nextRespId, submitted, found, got, gen>>

\* The handler returns and its session is closed: what was not committed is gone
ReturnExampleCall ==
    /\ task.pc = "return"
    /\ task' = NoTask
    /\ sess' = CleanSession
    /\ UNCHANGED <<styleVars, prompt, fb, indexVars, found, got, gen>>

\* session.delete(example): the rows of its responses collection lose their parent
Orphaned(rows, exampleIds) ==
    { IF ch.example_id \in exampleIds THEN [ch EXCEPT !.example_id = NullId] ELSE ch :
        ch \in rows }

ExampleIds == 1..MaxIndexRows

DeleteResponseExample ==
    /\ task.pc = "idle"
    /\ got = NoRow
    /\ \E c \in IndexCreators, id \in ExampleIds :
          LET example == { row \in respEx : row.id = id /\ row.creator_id = c }
          IN  /\ example # NoRow
              /\ respEx' = respEx \ example
              /\ responses' = Orphaned(responses, {id})
    /\ UNCHANGED <<styleVars, prompt, fb, styleEx, convs, nextId, nextRespId, submitted, found, respVars, gen>>

\* if creator_id: query = query.where(creator_id == creator_id): the rows selected
\* are those of one creator, or all rows when creator_id is None or 0
SelectedRows(rows, c) == { row \in rows : c = NullId \/ row.creator_id = c }

\* The creator_id arguments of clear_vectors and get_statistics; NullId is None or 0
CreatorArgs == IndexCreators \cup {NullId}

\* clear_vectors(creator_id): every selected row is deleted, in one commit
ClearVectorsOf(c) ==
    /\ SelectedRows(styleEx, c) \cup SelectedRows(respEx, c) \cup SelectedRows(convs, c) # {}
    /\ styleEx' = styleEx \ SelectedRows(styleEx, c)
    /\ respEx' = respEx \ SelectedRows(respEx, c)
    /\ convs' = convs \ SelectedRows(convs, c)
    /\ responses' = Orphaned(responses, { row.id : row \in SelectedRows(respEx, c) })

ClearVectors ==
    /\ task.pc = "idle"
    /\ got = NoRow
    /\ \E c \in CreatorArgs : ClearVectorsOf(c)
    /\ UNCHANGED <<styleVars, prompt, fb, nextId, nextRespId, submitted, found, respVars, gen>>

\* example.responses: the rows of the collection, in the order the database gives them
LoadedResponses(example) ==
    LET rows == { ch \in responses : ch.example_id = example.id }
    IN  { s \in [1..Cardinality(rows) -> rows] : Range(s) = rows }

GetResponseExample ==
    /\ task.pc = "idle"
    /\ got = NoRow
    /\ \E c \in IndexCreators, id \in ExampleIds :
          \E example \in { row \in respEx : row.id = id /\ row.creator_id = c } :
              \E loaded \in LoadedResponses(example) :
                  got' = { [example |-> example, responses |-> loaded] }
    /\ UNCHANGED <<styleVars, prompt, fb, indexVars, found, sess, task, gen>>

\* The caller takes the response of get_response_example
ReturnGot ==
    /\ got # NoRow
    /\ got' = NoRow
    /\ UNCHANGED <<styleVars, prompt, fb, indexVars, found, sess, task, gen>>

RespNext ==
    \/ CreateResponseExampleBegin
    \/ BulkCreateResponseExamplesBegin
    \/ StoreResponseExampleBegin
    \/ BulkStoreResponseExamplesBegin
    \/ EmbedItem
    \/ FlushExample
    \/ CommitExample
    \/ ReturnExampleCall
    \/ DeleteResponseExample
    \/ ClearVectors
    \/ GetResponseExample
    \/ ReturnGot

SpecResp == IndexInit /\ [][RespNext]_vars

ChildrenOf(id) == { ch \in responses : ch.example_id = id }

(* C7: store_response_example is atomic: a visible parent has all the       *)
(* responses submitted with it and every response that names a parent has  *)
(* that parent visible, also after a failure between the flush of a parent *)
(* and its commit and when the session then serves the next bulk item.     *)
StoreResponseExampleAtomic ==
    /\ \A p \in respEx : \A sub \in submitted :
          sub[1] = p.id => Cardinality(ChildrenOf(p.id)) = sub[2]
    /\ \A ch \in responses :
          ch.example_id # NullId => \E p \in respEx : p.id = ch.example_id

\* The first item of a bulk request was flushed with its responses and its commit
\* failed; the second item was then committed through the same session
FailedItemThenStoredWitness ==
    /\ task.op = "bulk_create" /\ task.pc = "return"
    /\ task.errors = {1} /\ task.created = 1
    /\ \E sub \in submitted : sub[1] = 1 /\ sub[2] > 0
    /\ { p.id : p \in respEx } = {2}
    /\ ChildrenOf(2) # {}
    /\ ChildrenOf(NullId) = {}

(* C8: in every state reached through the add, bulk add, store, bulk store, *)
(* delete and clear operations, every stored ResponseExample has at least  *)
(* one response.                                                           *)
EveryExampleHasResponse ==
    \A p \in respEx : ChildrenOf(p.id) # {}

(* C9: retrieving a response example stored with ranked responses returns   *)
(* its responses in ascending order of ranking, whatever order they were   *)
(* submitted in.                                                           *)
RetrievedByAscendingRanking ==
    \A g \in got :
        (\A i \in DOMAIN g.responses : g.responses[i].ranking # NoRanking)
            => \A i, j \in DOMAIN g.responses :
                  i < j => g.responses[i].ranking <= g.responses[j].ranking

-----------------------------------------------------------------------------
(* Suggestion generation: app/api/suggestions.py and app/services/ai_service.py *)

\* suggestion_count: Optional[int] takes any count; here the small ones and a large one
LargeCount == 12

Counts == (1..MaxCount) \cup {LargeCount}

\* similarity_threshold of a request, in percent: Optional[float] takes any number
RequestThresholds == {0, 60, 150}

DefaultThreshold == 70

\* A request without similarity_threshold, or with null: None where the others are numbers
NoThreshold == -1

\* request.similarity_threshold or 0.7: None and 0 are both replaced by the default
EffectiveThreshold(t) == IF t = NoThreshold \/ t = 0 THEN DefaultThreshold ELSE t

StyleExamplesLimit == 3

ResponseExamplesLimit == 2

ConversationsLimit == 3

\* The texts a completion of the language model may carry
Completions == { <<"h", "i">>, <<" ", "y", "o", " ">> }

\* The texts of the completions of one reply; a large reply repeats one text
CompletionLists(n) ==
    IF n <= MaxCount THEN [1..n -> Completions]
                     ELSE { [i \in 1..n |-> text] : text \in Completions }

\* str.strip(): the text without its leading and trailing blanks
Strip(text) ==
    LET inked == { i \in DOMAIN text : text[i] # " " }
    IN  IF inked = {} THEN <<>>
        ELSE SubSeq(text, CHOOSE i \in inked : \A j \in inked : i <= j,
                          CHOOSE i \in inked : \A j \in inked : i >= j)

\* response.choices for n = count: completion i carries index i - 1
Choices(contents) == [i \in DOMAIN contents |-> [index |-> i - 1, content |-> contents[i]]]

\* confidence = 1.0 - (choice.index * 0.1), in tenths
ConfidenceRising(index) == 10 + index

Confidence(index) == 10 - index

\* for choice in response.choices: suggestions.append(MessageSuggestion(...))
Suggestions(choices) ==
    [i \in DOMAIN choices |-> [text |-> Strip(choices[i].content),
                               confidence |-> Confidence(choices[i].index)]]

\* max(suggestions, key=lambda s: s.confidence): the first of the highest confidence
Best(suggestions) ==
    suggestions[CHOOSE i \in DOMAIN suggestions :
                   /\ \A j \in DOMAIN suggestions :
                         suggestions[j].confidence <= suggestions[i].confidence
                   /\ \A j \in 1..(i - 1) :
                         suggestions[j].confidence < suggestions[i].confidence]

\* get_suggestions up to the call of find_and_use_examples
GetSuggestionsBegin ==
    /\ gen.pc = "idle"
    /\ nextId <= MaxIndexRows
    /\ \E c \in IndexCreators, m \in Messages, n \in Counts,
          t \in RequestThresholds \cup {NoThreshold} :
          gen' = [NoGen EXCEPT !.c = c, !.m = m, !.n = n,
                               !.supplied = t,
                               !.threshold = EffectiveThreshold(t),
                               !.pc = IF c \in creators THEN "embed" ELSE "return",
                               !.status = IF c \in creators THEN 0 ELSE 404]
    /\ UNCHANGED <<styleVars, prompt, fb, indexVars, found, respVars>>

\* find_and_use_examples: the embedding of the fan message
GenerateEmbedding ==
    /\ gen.pc = "embed"
    /\ \E ok \in BOOLEAN :
          gen' = IF ok THEN [gen EXCEPT !.embedding = Embed(gen.m), !.pc = "find"]
                       ELSE [gen EXCEPT !.failed = @ \cup {"embedding"}, !.pc = "fallback"]
    /\ UNCHANGED <<styleVars, prompt, fb, indexVars, found, respVars>>

\* find_and_use_examples: the three similarity queries
FindExamples ==
    /\ gen.pc = "find"
    /\ \E ok \in BOOLEAN :
          IF ok
            THEN \E se \in OrderedLimit(Matching(styleEx, gen.c, gen.embedding, gen.threshold,
                                                 None), gen.embedding, StyleExamplesLimit),
                    re \in OrderedLimit(Matching(respEx, gen.c, gen.embedding, gen.threshold,
                                                 None), gen.embedding, ResponseExamplesLimit),
                    sc \in OrderedLimit(Matching(convs, gen.c, gen.embedding, gen.threshold,
                                                 None), gen.embedding, ConversationsLimit) :
                    gen' = [gen EXCEPT !.style_examples = se,
                                       !.response_examples = re,
                                       !.similar_conversations = Scored(sc, gen.embedding),
                                       !.pc = "generate"]
            ELSE gen' = [gen EXCEPT !.failed = @ \cup {"query"}, !.pc = "fallback"]
    /\ UNCHANGED <<styleVars, prompt, fb, indexVars, found, respVars>>

\* generate_suggestions: one call of the language model with n = suggestion_count;
\* when the call inside the try fails, find_and_use_examples calls it again bare
GenerateSuggestions ==
    /\ gen.pc \in {"generate", "fallback"}
    /\ \E ok \in BOOLEAN, contents \in CompletionLists(gen.n) :
          gen' = IF ok
                   THEN [gen EXCEPT !.calls = @ + 1,
                                    !.choices = Choices(contents),
                                    !.suggestions = Suggestions(Choices(contents)),
                                    !.pc = "store"]
                   ELSE IF gen.pc = "generate"
                          THEN [gen EXCEPT !.calls = @ + 1,
                                           !.failed = @ \cup {"language model"},
                                           !.style_examples = <<>>,
                                           !.response_examples = <<>>,
                                           !.similar_conversations = <<>>,
                                           !.pc = "fallback"]
                          ELSE [gen EXCEPT !.calls = @ + 1,
                                           !.failed = @ \cup {"language model"},
                                           !.status = 500, !.pc = "return"]
    /\ UNCHANGED <<styleVars, prompt, fb, indexVars, found, respVars>>

\* get_suggestions: the best suggestion is stored as a conversation
StoreBestSuggestion ==
    /\ gen.pc = "store"
    /\ \E ok \in BOOLEAN :
          IF ok
            THEN /\ convs' = convs \cup {VectorStoreRow(nextId, gen.c, gen.m,
                                                        Best(gen.suggestions).text,
                                                        Embed(gen.m))}
                 /\ nextId' = nextId + 1
                 /\ gen' = [gen EXCEPT !.status = 200, !.pc = "return"]
            ELSE /\ gen' = [gen EXCEPT !.failed = @ \cup {"embedding"},
                                        !.status = 500, !.pc = "return"]
                 /\ UNCHANGED <<convs, nextId>>
    /\ UNCHANGED <<styleVars, prompt, fb, styleEx, respEx, responses, nextRespId, submitted, found, respVars>>

\* The response, or the HTTP error, goes to the caller
ReturnSuggestions ==
    /\ gen.pc = "return"
    /\ gen' = NoGen
    /\ UNCHANGED <<styleVars, prompt, fb, indexVars, found, respVars>>

GenNext ==
    \/ GetSuggestionsBegin
    \/ GenerateEmbedding
    \/ FindExamples
    \/ GenerateSuggestions
    \/ StoreBestSuggestion
    \/ ReturnSuggestions

SpecGen == IndexInit /\ [][GenNext]_vars

(* C10: a successful generate_suggestions call with count n returns one     *)
(* candidate per completion the language model returned, n of them, in     *)
(* completion order, each with a higher confidence than the next.          *)
OneCandidatePerCompletion ==
    gen.choices # <<>> =>
        /\ Len(gen.suggestions) = gen.n
        /\ Len(gen.choices) = gen.n
        /\ \A i \in 1..gen.n : gen.suggestions[i].text = Strip(gen.choices[i].content)
        /\ \A i \in 1..(gen.n - 1) :
              gen.suggestions[i].confidence > gen.suggestions[i + 1].confidence

(* C11: for every suggestion count the request model accepts, every         *)
(* candidate generate_suggestions returns has a confidence in [0,1]        *)
(* (0 to 10 tenths).                                                       *)
ConfidenceInUnitInterval ==
    \A i \in DOMAIN gen.suggestions :
        /\ gen.suggestions[i].confidence >= 0
        /\ gen.suggestions[i].confidence <= 10

(* C12: when the embedding call or the language-model call fails during a  *)
(* request, the request ends in a failure and returns no candidates; a     *)
(* request whose embedding call failed never returns a candidate list.     *)
FailureReturnsNoCandidates ==
    (gen.pc = "return" /\ gen.failed \cap {"embedding", "language model"} # {})
        => gen.status = 500

(* C13: within one request the language model is invoked at most once; a    *)
(* failed invocation is not followed by a second one.                      *)
LanguageModelInvokedOnce ==
    gen.calls <= 1

(* C14: generation leaves the conversation collection unchanged: no step of *)
(* a suggestion request adds, removes or changes a conversation row.       *)
GenerationLeavesConversations ==
    [][gen.pc # "idle" => convs' = convs]_vars

(* C28: the threshold of the three similarity queries of a generation       *)
(* request is the threshold supplied in the request, for every supplied    *)
(* value in [0,1], 0 included; the default is used only when the request   *)
(* supplies none.                                                          *)
SuppliedThresholdUsed ==
    (gen.pc \in {"find", "generate", "store", "return"} /\ gen.embedding # <<>>)
      => /\ gen.supplied \in 0..100 => gen.threshold = gen.supplied
         /\ gen.threshold = DefaultThreshold /\ gen.supplied # DefaultThreshold
              => gen.supplied = NoThreshold

(* C20: a suggestion request whose similarity threshold lies outside [0,1]  *)
(* is rejected with a validation error before any embedding, language-     *)
(* model or similarity-query call is made.                                 *)
ThresholdOutsideRejected ==
    (gen.pc # "idle" /\ (gen.threshold < 0 \/ gen.threshold > 100))
        => /\ gen.pc = "return"
           /\ gen.status = 422
           /\ gen.calls = 0
           /\ gen.embedding = <<>>

\* A request for several suggestions was answered with them
SeveralCandidatesWitness ==
    /\ gen.pc = "return" /\ gen.status = 200
    /\ gen.n >= 2
    /\ Len(gen.suggestions) = gen.n
    /\ gen.suggestions[1].text # gen.suggestions[2].text

-----------------------------------------------------------------------------
(* Feedback: store_feedback of app/api/suggestions.py *)

\* The responses a caller may select
SelectedResponses == { <<"h", "i">>, Hey }

\* session.add(vector_item); await session.commit(): one more row in the table
Merged(rows, row) ==
    { r \in rows : r.creator_id # row.creator_id \/ r.fan_message # row.fan_message }
        \cup {row}

Inserted(rows, row) == rows \cup {row}

\* creator_id: int = Body(...): the id of a creator, or an id no creator has
MissingCreator == Cardinality(IndexCreators) + 1

FeedbackCreators == IndexCreators \cup {MissingCreator}

\* store_feedback is called; it checks nothing before it embeds the fan message
StoreFeedbackBegin ==
    /\ fb.pc \in {"idle", "done"}
    /\ found = NoRow
    /\ nextId <= MaxIndexRows
    /\ \E c \in FeedbackCreators, m \in Messages, text \in SelectedResponses :
          fb' = [NoFeedback EXCEPT !.pc = "embed", !.c = c, !.m = m, !.text = text]
    /\ UNCHANGED <<styleVars, prompt, indexVars, found, respVars, gen>>

\* embedding = await ai_service.generate_embedding(fan_message)
FeedbackEmbed ==
    /\ fb.pc = "embed"
    /\ found = NoRow
    /\ \E ok \in BOOLEAN :
          fb' = IF ok THEN [fb EXCEPT !.pc = "store"]
                      ELSE [fb EXCEPT !.pc = "done", !.status = 500]
    /\ UNCHANGED <<styleVars, prompt, indexVars, found, respVars, gen>>

\* vector = await vector_service.store_conversation(...); return, or HTTP 500.
\* The commit fails when creator_id names no row of creators (foreign key)
FeedbackStore ==
    /\ fb.pc = "store"
    /\ found = NoRow
    /\ \E ok \in BOOLEAN :
          IF ok /\ fb.c \in creators
            THEN LET row == VectorStoreRow(nextId, fb.c, fb.m, fb.text, Embed(fb.m))
                 IN  /\ convs' = Inserted(convs, row)
                     /\ nextId' = nextId + 1
                     /\ fb' = [fb EXCEPT !.pc = "done", !.status = 200, !.row = {row}]
            ELSE /\ fb' = [fb EXCEPT !.pc = "done", !.status = 500]
                 /\ UNCHANGED <<convs, nextId>>
    /\ UNCHANGED <<styleVars, prompt, styleEx, respEx, responses, nextRespId, submitted, found,
                   respVars, gen>>

FeedbackNext ==
    \/ StoreFeedbackBegin
    \/ FeedbackEmbed
    \/ FeedbackStore
    \/ FindSimilarConversations
    \/ ReturnFound

SpecFeedback == IndexInit /\ [][FeedbackNext]_vars

ConversationsOf(c) == { row \in convs : row.creator_id = c }

(* C15: every successful store_feedback(creator, fan_message, chosen_text)  *)
(* adds exactly one new conversation row holding those values and changes  *)
(* or merges no existing row, also when a row with the same fan_message    *)
(* exists; the creator's conversations grow by exactly one.                *)
FeedbackAppendsOne ==
    [][(fb.pc = "store" /\ fb'.pc = "done" /\ fb'.status = 200)
         => /\ \E row \in convs' :
                  /\ row \notin convs
                  /\ row.id \notin { r.id : r \in convs }
                  /\ convs' = convs \cup {row}
                  /\ row.creator_id = fb.c
                  /\ row.fan_message = fb.m
                  /\ row.creator_response = fb.text
            /\ Cardinality(ConversationsOf(fb.c)') = Cardinality(ConversationsOf(fb.c)) + 1]_vars

\* Feedback was stored for a fan message the creator already had a conversation for
SameMessageTwiceWitness ==
    /\ fb.pc = "done" /\ fb.status = 200
    /\ \E row \in convs :
          /\ row \notin fb.row
          /\ row.creator_id = fb.c
          /\ row.fan_message = fb.m

(* C16: after store_feedback(c, m, t) succeeds, a following                 *)
(* find_similar_conversations for c with the embedding of m returns the    *)
(* new row, for every threshold in [0,1] and limit > 0, whatever other     *)
(* rows are stored for c.                                                  *)
FeedbackThenFound ==
    (/\ fb.pc = "done" /\ fb.status = 200
     /\ found # NoRow
     /\ Query.kind = "conversation"
     /\ Query.creator_id = fb.c
     /\ Query.embedding = Embed(fb.m))
    => \E i \in DOMAIN Results : {Results[i].example} = fb.row

(* C21: an operation that names a creator detects a nonexistent creator on  *)
(* its first read and ends in a not-found client error, having made no     *)
(* embedding call and written no row; stated here for store_feedback, the  *)
(* operation that records feedback.                                        *)
MissingCreatorNotFound ==
    (fb.pc # "idle" /\ fb.c \notin creators) => (fb.pc = "done" /\ fb.status = 404)

(* C18: in a bulk creation request a failure of one item does not abort the *)
(* batch: the items reported as failed, by index, are exactly the items    *)
(* that failed by a cause of their own, every other item is stored, and    *)
(* created_count plus the number of errors is the number of items.         *)
BulkItemsIndependent ==
    (task.op = "bulk_create" /\ task.pc = "return" /\ task.status = 201)
      => /\ task.errors = task.faults
         /\ task.created = Len(task.items) - Cardinality(task.faults)
         /\ task.created + Cardinality(task.errors) = Len(task.items)

(* C27: create_response_example stores each response text with exactly the  *)
(* ranking supplied together with that text, and with no ranking when none *)
(* was supplied for it.                                                    *)
RankingStoredWithItsText ==
    [][(task.pc = "commit" /\ task.op = "create" /\ task'.status = 201)
          => \A p \in sess.parents : \A i \in DOMAIN task.items[1].responses :
                \E ch \in responses' :
                    /\ ch.example_id = p.id
                    /\ ch.response_text = task.items[1].responses[i].response_text
                    /\ ch.ranking = task.items[1].responses[i].ranking]_vars

(* C19: creating a response example with an empty list of responses is     *)
(* rejected with a client error before the embedding service is called,    *)
(* and no example row and no response row is written.                      *)
EmptyResponsesRejected ==
    [][(task.op = "create" /\ task.items[1].responses = <<>>)
          => /\ task'.embeds = 0
             /\ task'.pc = "return" => task'.status = 400
             /\ sess'.parents = {} /\ sess'.children = {}
             /\ respEx' = respEx /\ responses' = responses
             /\ nextId' = nextId /\ nextRespId' = nextRespId]_vars

\* The endpoint has answered a request without responses, other examples being stored
EmptyResponsesRejectedWitness ==
    /\ task.op = "create" /\ task.pc = "return"
    /\ task.items[1].responses = <<>>
    /\ task.status = 400 /\ task.embeds = 0
    /\ respEx # {}

-----------------------------------------------------------------------------
(* Clearing and counting: clear_vectors and get_statistics *)

\* get_statistics(creator_id): the three counts of its reply
GetStatistics(c) ==
    [style_examples_count |-> Cardinality(SelectedRows(styleEx, c)),
     response_examples_count |-> Cardinality(SelectedRows(respEx, c)),
     vector_store_count |-> Cardinality(SelectedRows(convs, c))]

ZeroCounts ==
    [style_examples_count |-> 0, response_examples_count |-> 0, vector_store_count |-> 0]

\* The rows of a creator in the three collections
ExamplesOf(c) ==
    <<{ row \in styleEx : row.creator_id = c },
      { row \in respEx : row.creator_id = c },
      { row \in convs : row.creator_id = c }>>

ClearNext ==
    \/ StoreStyleExample
    \/ StoreResponseExample
    \/ StoreConversation
    \/ ClearVectors

SpecClear == IndexInit /\ [][ClearNext]_vars

(* C17: for every creator id c supplied to clear_vectors, the call removes  *)
(* only rows of creator c: afterwards get_statistics(c) reports zero for   *)
(* the three collections and the rows of every other creator are as they   *)
(* were.                                                                   *)
ClearRemovesOnlyThatCreator ==
    [][\A c \in CreatorArgs :
          ClearVectorsOf(c)
            => /\ GetStatistics(c)' = ZeroCounts
               /\ \A other \in IndexCreators \ {c} : ExamplesOf(other)' = ExamplesOf(other)]_vars

-----------------------------------------------------------------------------
(* The response examples of the system message: _format_response_examples *)

\* key=lambda r: r.ranking or 0
RankingKey(r) == IF r.ranking = NoRanking THEN 0 ELSE r.ranking

\* sorted(example.responses, key=..., reverse=True): the highest key first, equal
\* keys in the order given
Sorted(s) ==
    LET n == Len(s)
        p == CHOOSE q \in [1..n -> 1..n] :
                /\ \A i, j \in 1..n : i # j => q[i] # q[j]
                /\ \A i, j \in 1..n :
                      i < j => \/ RankingKey(s[q[i]]) > RankingKey(s[q[j]])
                               \/ /\ RankingKey(s[q[i]]) = RankingKey(s[q[j]])
                                  /\ q[i] < q[j]
    IN  [i \in 1..n |-> s[p[i]]]

\* "*" * (response.ranking or (len(sorted_responses) - i)), with i counted from 0
Stars(r, n, i) == IF RankingKey(r) # 0 THEN r.ranking ELSE n - (i - 1)

\* One line "Response Option {i+1} {stars}: {response_text}" per response
FormatResponses(loaded) ==
    LET sorted == Sorted(loaded)
    IN  [i \in DOMAIN sorted |->
            [option |-> i, stars |-> Stars(sorted[i], Len(sorted), i), response |-> sorted[i]]]

\* The lists of response examples a search hands over: up to its limit, no row twice
ExampleLists ==
    { exs \in UNION { [1..n -> respEx] : n \in 1..ResponseExamplesLimit } :
        \A i, j \in DOMAIN exs : i # j => exs[i] # exs[j] }

\* _format_response_examples(examples): for each example its fan message and the
\* lines of its responses, which are loaded in the order the database gives them
FormatResponseExamples ==
    /\ task.pc = "idle"
    /\ \E exs \in ExampleLists :
          \E loads \in [DOMAIN exs -> UNION { LoadedResponses(e) : e \in respEx }] :
              /\ \A i \in DOMAIN exs : loads[i] \in LoadedResponses(exs[i])
              /\ prompt' = [i \in DOMAIN exs |->
                               [fan_message |-> exs[i].fan_message,
                                options |-> FormatResponses(loads[i])]]
    /\ UNCHANGED <<styleVars, fb, indexVars, found, respVars, gen>>

PromptNext ==
    \/ StoreResponseExampleBegin
    \/ FlushExample
    \/ CommitExample
    \/ ReturnExampleCall
    \/ FormatResponseExamples

SpecPrompt == IndexInit /\ [][PromptNext]_vars

(* C30: in the generated prompt the responses of each response example are  *)
(* emitted best first, rank 1 being the best: a response with ranking 1 is *)
(* emitted before a response with a larger ranking and is not labelled as  *)
(* the worse option of the two.                                            *)
BestResponseFirst ==
    \A e \in DOMAIN prompt : \A i, j \in DOMAIN prompt[e].options :
        LET a == prompt[e].options[i]
            b == prompt[e].options[j]
        IN  (a.response.ranking = 1 /\ b.response.ranking > 1)
              => (a.option < b.option /\ a.stars >= b.stars)

-----------------------------------------------------------------------------
(* Editing a style example: update_style_example of app/api/creators.py *)

Nope == <<"n", "o">>

\* The request bodies of PATCH examples: the fields that were set, among them
\* an embedding and the id of another creator
ExampleUpdates ==
    { [fan_message |-> "hey"],
      [creator_response |-> Nope, embedding |-> <<0, 5>>],
      [creator_id |-> Cardinality(IndexCreators), category |-> "greeting"] }

\* A variant of Dumped that serializes every field that was set
DumpedAll(body) == DOMAIN body

\* model_dump(exclude_unset=True): StyleExample.embedding is declared with
\* Field(exclude=True), so the dump leaves it out
Dumped(body) == DOMAIN body \ {"embedding"}

\* if key not in ["id", "creator_id", "created_at", "updated_at"]
Protected == {"id", "creator_id", "created_at", "updated_at"}

\* the setattr loop of update_style_example
Edited(row, body) ==
    [f \in DOMAIN row |-> IF f \in Dumped(body) \ Protected THEN body[f] ELSE row[f]]

\* update_style_example: 404 unless the example is the creator's; setattr; commit
UpdateStyleExample ==
    /\ found = NoRow
    /\ \E c \in IndexCreators, id \in ExampleIds, body \in ExampleUpdates :
          LET existing == { row \in styleEx : row.id = id /\ row.creator_id = c }
          IN  /\ existing # NoRow
              /\ styleEx' = (styleEx \ existing) \cup {Edited(The(existing), body)}
    /\ UNCHANGED <<styleVars, prompt, fb, respEx, responses, convs, nextId, nextRespId, submitted,
                   found, respVars, gen>>

EditNext ==
    \/ StoreStyleExample
    \/ UpdateStyleExample

SpecEdit == IndexInit /\ [][EditNext]_vars

(* C26: the embedding of a style example is set once, when the example is   *)
(* created; no later operation on the example changes it, whatever the     *)
(* body of update_style_example.                                           *)
EmbeddingImmutable ==
    [][\A row \in styleEx : \A after \in styleEx' :
          after.id = row.id => after.embedding = row.embedding]_vars

\* An example was edited by the body that carries an embedding, and its fan
\* message was edited too
EditedExampleWitness ==
    \E row \in styleEx :
        /\ row.creator_response = Nope
        /\ row.fan_message = "hey"
        /\ row.embedding = Embed("hello")

-----------------------------------------------------------------------------
(* Deleting a creator: delete_creator of app/api/creators.py *)

\* session.delete(creator): the relationships of Creator have no delete cascade, so
\* the rows of styles, style_examples and response_examples get creator_id NULL
Disowned(rows, c) ==
    { IF row.creator_id = c THEN [row EXCEPT !.creator_id = NullId] ELSE row : row \in rows }

\* delete_creator: 404 for no creator.  vector_store is no relationship of Creator:
\* while a conversation names the creator, its foreign key makes the DELETE fail
DeleteCreator ==
    /\ AllIdle
    /\ found = NoRow
    /\ \E c \in IndexCreators :
          IF c \notin creators
            THEN /\ hist' = Record(Response("delete_creator", c, 404, NoRow, FALSE))
                 /\ UNCHANGED <<creators, styles, styleEx, respEx>>
            ELSE IF ConversationsOf(c) # {}
              THEN /\ hist' = Record(Response("delete_creator", c, 500, NoRow, FALSE))
                   /\ UNCHANGED <<creators, styles, styleEx, respEx>>
              ELSE /\ creators' = creators \ {c}
                   /\ styles' = Disowned(styles, c)
                   /\ styleEx' = Disowned(styleEx, c)
                   /\ respEx' = Disowned(respEx, c)
                   /\ hist' = Record(Response("delete_creator", c, 204, NoRow, FALSE))
    /\ UNCHANGED <<nextStyleId, req, responses, convs, nextId, nextRespId, submitted,
                   found, respVars, gen, fb, prompt>>

\* Calls made in sequence: profiles are read, examples stored, creators deleted
DeleteNext ==
    \/ GetCreatorStyleBegin(Caller)
    \/ ReadStyle(Caller)
    \/ GetCreatorStyleCreate(Caller)
    \/ AllIdle /\ StoreStyleExample
    \/ AllIdle /\ StoreResponseExample
    \/ AllIdle /\ StoreConversation
    \/ DeleteCreator

SpecDelete == IndexInit /\ [][DeleteNext]_vars

\* The ids of the rows of a collection that name creator c
Referencing(rows, c) == { row.id : row \in { x \in rows : x.creator_id = c } }

Ids(rows) == { row.id : row \in rows }

(* C25: after delete_creator(c) succeeds, no profile, style example,        *)
(* response example (with its responses) or conversation that referenced c *)
(* remains stored, and none remains with its creator reference cleared.    *)
DeleteCreatorCascades ==
    [][\A c \in creators \ creators' :
          /\ Referencing(styles, c) \cap Ids(styles') = {}
          /\ Referencing(styleEx, c) \cap Ids(styleEx') = {}
          /\ Referencing(respEx, c) \cap Ids(respEx') = {}
          /\ Referencing(convs, c) \cap Ids(convs') = {}
          /\ \A ch \in responses' : ch.example_id \notin Referencing(respEx, c)]_vars

(* C29: after delete_response_example or clear_vectors succeeds no response *)
(* row remains whose parent example no longer exists: deleting a response  *)
(* example deletes all of its responses.                                   *)
DeleteRemovesResponses ==
    [][\A p \in respEx :
          p.id \notin Ids(respEx')
            => \A ch \in ChildrenOf(p.id) : ch.id \notin Ids(responses')]_vars

SynthesizedDefaultProfile ==
    \A i \in DOMAIN hist :
        (hist[i].op = "get" /\ hist[i].status = 200 /\ hist[i].created)
        => LET cfg == The(hist[i].row).cfg
           IN  /\ cfg.case_style = "sentence"
               /\ cfg.approved_emojis # <<>>
               /\ Range(cfg.sentence_separators) = {".", "!", "?"}
               /\ cfg.text_replacements = {}
               /\ cfg.common_abbreviations = {}
               /\ cfg.message_length_preferences =
                      [min_length |-> 10, max_length |-> 500, optimal_length |-> 150]
               /\ Range(cfg.tone_range) =
                      {"friendly", "casual", "enthusiastic", "supportive", "playful"}

(* C24: once a creator's profile exists, no operation other than deleting   *)
(* the creator removes it: a step that leaves the creator in place leaves  *)
(* the creator with a profile.                                             *)
ProfileNeverDeletedAlone ==
    [][\A c \in creators \cap creators' : StylesOf(c) # {} => StylesOf(c)' # {}]_vars

-----------------------------------------------------------------------------
(* C1: for every creator at most one StyleProfile row exists, whatever the  *)
(* interleaving of get, store, update and create_creator calls.            *)
AtMostOneStylePerCreator ==
    \A c \in CreatorIds : Cardinality(StylesOf(c)) <= 1

(* C2: two get_or_create_style_profile calls in sequence for a creator with *)
(* no profile return the same row with the same field values, and exactly  *)
(* one profile row exists for the creator afterwards.                      *)
GetTwiceSameProfile ==
    (/\ Len(hist) = 2
     /\ hist[1].op = "get" /\ hist[2].op = "get"
     /\ hist[1].c = hist[2].c
     /\ hist[1].status = 200
     /\ AllIdle)
    => /\ hist[2].status = 200
       /\ hist[2].row = hist[1].row
       /\ ~hist[2].created
       /\ StylesOf(hist[1].c) = hist[1].row

GetTwiceWitness ==
    /\ Len(hist) = 2
    /\ hist[1].op = "get" /\ hist[2].op = "get"
    /\ hist[1].c = hist[2].c
    /\ hist[1].status = 200 /\ hist[1].created
    /\ hist[2].status = 200
    /\ AllIdle

=============================================================================
